---------------------------- MODULE Spec2Model ----------------------------
(***************************************************************************)
(* The benchmark execution engine of src/src/lib/Benchmark.ts.             *)
(*                                                                         *)
(* One Benchmark instance owns the registry `tests` and the closure state  *)
(* `totalms`, `abort`, `running`.  Every invocation of the async function  *)
(* run() is a process r: it is suspended at one `await` (rs[r].pc names    *)
(* the awaited call) and each action below is the continuation that runs,  *)
(* without interruption, from the return of that await to the next await.  *)
(* add(), cancel(), clear() and run() are synchronous calls of the caller  *)
(* and may happen between any two continuations.  Spec is the engine with   *)
(* hooks that return, FairSpec adds that every awaited call does return,   *)
(* FailSpec is the engine with hooks that may reject.                      *)
(***************************************************************************)
EXTENDS Integers, Sequences, FiniteSets, TLC

\* ------------------------------------------------------------------ bounds
\* run() invocations that pass the `running` guard and do not reject
MaxRuns == 2
\* add() calls over the life of the instance
MaxAdds == 2
\* largest value of the constructor parameter `iterations`
MaxIterations == 2
\* largest value of the constructor parameter `preMeasureIterations`
MaxPreMeasureIterations == 1
\* add() calls on the second instance
MaxPeerAdds == 1
\* measure calls that a run of the second instance accumulates in its totalms
MaxPeerMeasures == 1

Runs == 1..MaxRuns

\* --------------------------------------------------------------- the cases
\* The case specs handed to add(): "A" defines preMeasure, "B" defines
\* postMeasure and is a bulk case.  A registered case is [id, kind], its name
\* being its registration number id, which keeps the names unique.
Kinds == {"A", "B"}

\* BenchmarkCase.preMeasure is defined
HasPreMeasure(test) == test.kind = "A"

\* BenchmarkCase.postMeasure is defined
HasPostMeasure(test) == test.kind = "B"

\* BenchmarkCase.bulk, `bulk ?? 1` for a case that gives none
Bulk(test) == IF test.kind = "B" THEN 2 ELSE 1

\* end - start of one measure(i) call of the case, in milliseconds
Duration(test) == IF test.kind = "B" THEN 40 ELSE 10

\* `const test = tests[i]` before the first case of a run
NoTest == [id |-> 0, kind |-> "none"]

VARIABLES
  tests,        \* the registry: sequence of [id, kind]
  nextId,       \* registration number of the next add()
  recording,    \* whether the calls of the runs are being recorded in obs and flags
  totalms,      \* accumulator of the measured loop
  abort,        \* abort current run
  running,      \* track running for cancel method
  iterations,   \* constructor parameter
  preMeasureIterations, \* constructor parameter
  rs,           \* run() invocations: [pc, i, test, j, reported]; reported is
                \* mean * (number of iterations) of the callback in flight
  obs,          \* per run(): the hooks and callbacks it has invoked
  flags,        \* per run(): the calls of the caller that reached it
  peer          \* the closure state of a second Benchmark instance

vars == <<tests, nextId, totalms, abort, running, iterations, preMeasureIterations,
          recording, rs, obs, flags, peer>>

shared == <<totalms, abort, running>>
config == <<iterations, preMeasureIterations, nextId, recording, peer>>

\* tests (its length), totalms, abort and running of a newly constructed instance
NewPeer == [tests |-> 0, totalms |-> 0, abort |-> FALSE, running |-> FALSE]

\* the locals of a run() invocation that is not in the engine
IdleRun == [pc |-> "idle", i |-> 0, test |-> NoTest, j |-> 0, reported |-> 0]

\* What a run() invocation has invoked.  clog: the run-level and case-level
\* calls <<hook, case id, 0>> in order (beforeAll, before, cycle, after,
\* afterAll); for the case in progress, the indices passed to preMeasure,
\* preMeasureIteration, measure and postMeasure and the <<i, ms>> passed to
\* the iteration callback.  The record is dropped when the run settles.
NoObs == [clog |-> <<>>, pre |-> <<>>, preIters |-> <<>>, meas |-> <<>>,
          iters |-> <<>>, post |-> <<>>]

\* hit: at the first cancel() that set abort while the run was in a case,
\*   that the case was the k-th the run entered, and whether its cycle
\*   callback had not been invoked yet;
\* armed: a cancel() came while a measure(i) of the run was in flight and
\*   neither run() has passed the guard nor clear() been called since;
\* cancelled / cleared: a cancel() that set abort / a clear() came while the
\*   run was active;
\* failure: "threw" once an awaited call of the invocation has rejected,
\*   "cleared" once clear() has been called after that; a run() that starts in
\*   the place of the rejected one keeps "cleared" and drops "threw".
NoFlags == [hit |-> [k |-> 0, early |-> FALSE], armed |-> FALSE,
            cancelled |-> FALSE, cleared |-> FALSE, failure |-> "none"]

\* the run() invocation is suspended in the engine
Active(r) == rs[r].pc \notin {"idle", "done", "failed"}

\* the awaits inside the body of the loop over the cases
CasePhases == {"before", "preMeasure", "preMeasureIteration", "sleep1", "measure",
               "iteration", "postMeasure", "cycle", "after", "sleep2"}

\* the awaits of a case from the invocation of its cycle callback on
LatePhases == {"cycle", "after", "sleep2"}

\* the awaits of a hook or callback, which can reject (sleep cannot)
Hooks == (CasePhases \cup {"beforeAll", "afterAll"}) \ {"sleep1", "sleep2"}

\* the instance as constructed, its calls recorded or not
Start(rec) ==
  /\ tests = <<>>
  /\ nextId = 1
  /\ recording = rec
  /\ totalms = 0
  /\ abort = FALSE
  /\ running = FALSE
  /\ iterations \in 0..MaxIterations
  /\ preMeasureIterations \in 0..MaxPreMeasureIterations
  /\ rs = [r \in Runs |-> IdleRun]
  /\ obs = [r \in Runs |-> NoObs]
  /\ flags = [r \in Runs |-> NoFlags]
  /\ peer = NewPeer

Init == Start(TRUE)

\* ------------------------------------------------------ closure operations
\* reset(), were it to leave the abort flag alone
resetKeepingAbort ==
  /\ abort' = abort
  /\ running' = FALSE
  /\ totalms' = 0

\* reset(): abort = false; running = false; totalms = 0
reset ==
  /\ abort' = FALSE
  /\ running' = FALSE
  /\ totalms' = 0

\* the checkpoint condition, were it to forget the abort flag
StoppedIgnoringAbort == ~running

\* the checkpoint condition, were it to look at the abort flag only
StoppedOnlyOnAbort == abort

\* the checkpoint condition `abort || !running`
Stopped == abort \/ ~running

\* the cycle callback, were it invoked whenever runCase leaves its loop
CycleGuardAlways == TRUE

\* the condition `running && !abort` guarding the cycle callback
CycleGuard == running /\ ~abort

\* ms = (end - start) / (bulk ?? 1)
Ms(test) == Duration(test) \div Bulk(test)

\* the record o of a run() invocation after it invokes the hook or callback ev
\* (entering a case or leaving the last one drops the indices of the case before)
Record(o, ev) ==
  CASE ev[1] = "before" ->
         [NoObs EXCEPT !.clog = Append(o.clog, ev)]
    [] ev[1] \in {"beforeAll", "cycle", "after"} ->
         [o EXCEPT !.clog = Append(@, ev)]
    [] ev[1] = "afterAll" ->
         [NoObs EXCEPT !.clog = Append(o.clog, ev)]
    [] ev[1] = "preMeasure" -> [o EXCEPT !.pre = Append(@, ev[3])]
    [] ev[1] = "preMeasureIteration" -> [o EXCEPT !.preIters = Append(@, ev[3])]
    [] ev[1] = "measure" -> [o EXCEPT !.meas = Append(@, ev[3])]
    [] ev[1] = "postMeasure" -> [o EXCEPT !.post = Append(@, ev[3])]
    [] ev[1] = "iteration" -> [o EXCEPT !.iters = Append(@, <<ev[3], ev[4]>>)]

\* the run() invocation r invokes a hook or callback
Emit(r, ev) == obs' = [obs EXCEPT ![r] = IF recording THEN Record(@, ev) ELSE @]

\* r is suspended at the await of `at`, with loop indices unchanged
Goto(r, at) == rs' = [rs EXCEPT ![r].pc = at, ![r].reported = 0]

\* runCase returned, were the after hook left out for a run that finds itself
\* stopped
CallAfterUnlessStopped(r) ==
  /\ IF Stopped THEN UNCHANGED obs ELSE Emit(r, <<"after", rs[r].test.id, 0>>)
  /\ rs' = [rs EXCEPT ![r].pc = "after", ![r].j = 0, ![r].reported = 0]

\* ------------------------------------------------------------ the run loop
\* `await test.after?.(test.name)`, reached when runCase returns
CallAfter(r) ==
  /\ Emit(r, <<"after", rs[r].test.id, 0>>)
  /\ rs' = [rs EXCEPT ![r].pc = "after", ![r].j = 0, ![r].reported = 0]

\* lines 96-97 of runCase, reached when the measured loop is left without reset()
AfterLoop(r, guard) ==
  IF guard
    THEN /\ Emit(r, <<"cycle", rs[r].test.id, 0>>)
         /\ rs' = [rs EXCEPT ![r].pc = "cycle", ![r].j = 0, ![r].reported = totalms]
         /\ UNCHANGED shared
    ELSE /\ CallAfter(r)
         /\ UNCHANGED shared

\* the head of the measured loop, were a stopped run to wait and look again
\* instead of leaving the loop
MeasureLoopRetry(r, j) ==
  IF j < iterations
    THEN IF Stopped
           THEN /\ rs' = [rs EXCEPT ![r].pc = "sleep1", ![r].j = 0]
                /\ UNCHANGED <<shared, obs>>
           ELSE /\ Emit(r, <<"measure", rs[r].test.id, j>>)
                /\ rs' = [rs EXCEPT ![r].pc = "measure", ![r].j = j, ![r].reported = 0]
                /\ UNCHANGED shared
    ELSE AfterLoop(r, CycleGuard)

\* the head of the measured loop, were a case without iterations to end
\* without its cycle callback
MeasureLoopNeedsIterations(r, j) ==
  IF j < iterations
    THEN IF Stopped
           THEN /\ reset
                /\ CallAfter(r)
           ELSE /\ Emit(r, <<"measure", rs[r].test.id, j>>)
                /\ rs' = [rs EXCEPT ![r].pc = "measure", ![r].j = j, ![r].reported = 0]
                /\ UNCHANGED shared
    ELSE AfterLoop(r, CycleGuard /\ iterations > 0)

\* the head of the measured loop (lines 80-86) with index j
MeasureLoop(r, j) ==
  IF j < iterations
    THEN IF Stopped
           THEN \* reset(); break; then `running && !abort` is false
                /\ reset
                /\ CallAfter(r)
           ELSE /\ Emit(r, <<"measure", rs[r].test.id, j>>)
                /\ rs' = [rs EXCEPT ![r].pc = "measure", ![r].j = j, ![r].reported = 0]
                /\ UNCHANGED shared
    ELSE AfterLoop(r, CycleGuard)

\* `await sleep(delay)` after runPreMeasure
CallSleep1(r) ==
  /\ rs' = [rs EXCEPT ![r].pc = "sleep1", ![r].j = 0]
  /\ UNCHANGED obs

\* the head of the preMeasure loop (lines 67-72) with index j
PreMeasureLoop(r, j) ==
  IF j < preMeasureIterations
    THEN IF Stopped
           THEN /\ reset
                /\ CallSleep1(r)
           ELSE /\ Emit(r, <<"preMeasure", rs[r].test.id, j>>)
                /\ rs' = [rs EXCEPT ![r].pc = "preMeasure", ![r].j = j]
                /\ UNCHANGED shared
    ELSE /\ CallSleep1(r)
         /\ UNCHANGED shared

\* the head of the loop over the cases, were run() to skip afterAll when the
\* registry is empty
CaseLoopSkipAfterAll(r, i) ==
  IF i < Len(tests)
    THEN /\ Emit(r, <<"before", tests[i + 1].id, 0>>)
         /\ rs' = [rs EXCEPT ![r].pc = "before", ![r].i = i, ![r].test = tests[i + 1]]
    ELSE /\ IF tests = <<>> THEN UNCHANGED obs ELSE Emit(r, <<"afterAll", 0, 0>>)
         /\ rs' = [rs EXCEPT ![r].pc = "afterAll", ![r].i = i, ![r].test = NoTest]

\* the head of the loop over the cases, were the last case of the registry
\* left out
CaseLoopOneShort(r, i) ==
  IF i + 1 < Len(tests)
    THEN /\ Emit(r, <<"before", tests[i + 1].id, 0>>)
         /\ rs' = [rs EXCEPT ![r].pc = "before", ![r].i = i, ![r].test = tests[i + 1]]
    ELSE /\ Emit(r, <<"afterAll", 0, 0>>)
         /\ rs' = [rs EXCEPT ![r].pc = "afterAll", ![r].i = i, ![r].test = NoTest]

\* the head of the loop over the cases (lines 108-110, 118) with index i
CaseLoop(r, i) ==
  IF i < Len(tests)
    THEN /\ Emit(r, <<"before", tests[i + 1].id, 0>>)
         /\ rs' = [rs EXCEPT ![r].pc = "before", ![r].i = i, ![r].test = tests[i + 1]]
    ELSE /\ Emit(r, <<"afterAll", 0, 0>>)
         /\ rs' = [rs EXCEPT ![r].pc = "afterAll", ![r].i = i, ![r].test = NoTest]

\* ------------------------------------------------------- the caller's calls
\* add(name, args): tests.push({ name, ...args })
Add(kind) ==
  /\ nextId <= MaxAdds
  /\ tests' = Append(tests, [id |-> nextId, kind |-> kind])
  /\ nextId' = nextId + 1
  /\ UNCHANGED <<shared, iterations, preMeasureIterations, recording, rs, obs, flags, peer>>

\* cancel(): if (!running) return; abort = true
Cancel ==
  /\ abort' = (IF running THEN TRUE ELSE abort)
  /\ flags' = [r \in Runs |->
       IF ~Active(r) \/ ~recording THEN flags[r]
       ELSE [flags[r] EXCEPT
               !.hit = IF running /\ @.k = 0 /\ rs[r].pc \in CasePhases
                         THEN [k |-> rs[r].i + 1, early |-> rs[r].pc \notin LatePhases] ELSE @,
               !.armed = @ \/ rs[r].pc = "measure",
               !.cancelled = @ \/ running]]
  /\ UNCHANGED <<tests, totalms, running, config, rs, obs>>

\* clear(): tests.length = 0; reset()
Clear ==
  /\ tests' = <<>>
  /\ reset
  /\ flags' = [r \in Runs |->
       IF ~recording THEN flags[r]
       ELSE IF Active(r) THEN [flags[r] EXCEPT !.cleared = TRUE, !.armed = FALSE]
       ELSE IF flags[r].failure = "threw" THEN [flags[r] EXCEPT !.failure = "cleared"]
       ELSE flags[r]]
  /\ UNCHANGED <<config, rs, obs>>

\* run() while running: `if (running) return`
RunReentrant ==
  /\ running
  /\ UNCHANGED vars

\* run(), were it to lack the guard `if (running) return`
RunUnguarded(r) ==
  /\ rs[r].pc \in {"idle", "failed"}
  /\ \A q \in Runs : q < r => rs[q].pc \notin {"idle", "failed"}
  /\ running' = TRUE
  /\ Emit(r, <<"beforeAll", 0, 0>>)
  /\ Goto(r, "beforeAll")
  /\ flags' = [q \in Runs |-> [flags[q] EXCEPT !.armed = FALSE]]
  /\ UNCHANGED <<tests, totalms, abort, config>>

\* run() (lines 103-106): running = true; await beforeAll?.()
\* (the invocation takes the place of one that never started or has rejected)
Run(r) ==
  /\ rs[r].pc \in {"idle", "failed"}
  /\ \A q \in Runs : q < r => rs[q].pc \notin {"idle", "failed"}
  /\ ~running
  /\ running' = TRUE
  /\ Emit(r, <<"beforeAll", 0, 0>>)
  /\ Goto(r, "beforeAll")
  /\ flags' = [q \in Runs |->
       [flags[q] EXCEPT !.armed = FALSE,
                        !.failure = IF q = r /\ @ = "threw" THEN "none" ELSE @]]
  /\ UNCHANGED <<tests, totalms, abort, config>>

\* ------------------------------------------- the continuations of one run()
\* beforeAll returned: enter the loop over the cases
AfterBeforeAll(r) ==
  /\ rs[r].pc = "beforeAll"
  /\ CaseLoop(r, 0)
  /\ UNCHANGED <<tests, shared, config, flags>>

\* test.before returned, were runPreMeasure to loop for a case without preMeasure
AfterBeforeAlwaysPre(r) ==
  /\ rs[r].pc = "before"
  /\ PreMeasureLoop(r, 0)
  /\ UNCHANGED <<tests, config, flags>>

\* test.before returned: runPreMeasure(test), then sleep(delay)
AfterBefore(r) ==
  /\ rs[r].pc = "before"
  /\ IF HasPreMeasure(rs[r].test)
       THEN PreMeasureLoop(r, 0)
       ELSE CallSleep1(r) /\ UNCHANGED shared
  /\ UNCHANGED <<tests, config, flags>>

\* preMeasure(i) returned: await preMeasureIteration?.(name, { i })
AfterPreMeasure(r) ==
  /\ rs[r].pc = "preMeasure"
  /\ Emit(r, <<"preMeasureIteration", rs[r].test.id, rs[r].j>>)
  /\ Goto(r, "preMeasureIteration")
  /\ UNCHANGED <<tests, shared, config, flags>>

\* preMeasureIteration returned: `if (abort || !running) break`, else next i
AfterPreMeasureIteration(r) ==
  /\ rs[r].pc = "preMeasureIteration"
  /\ IF Stopped
       THEN CallSleep1(r) /\ UNCHANGED shared
       ELSE PreMeasureLoop(r, rs[r].j + 1)
  /\ UNCHANGED <<tests, config, flags>>

\* the first sleep(delay) returned: runCase(test)
AfterSleep1(r) ==
  /\ rs[r].pc = "sleep1"
  /\ MeasureLoop(r, 0)
  /\ UNCHANGED <<tests, config, flags>>

\* measure(i) returned (lines 87-92)
AfterMeasure(r) ==
  /\ rs[r].pc = "measure"
  /\ IF Stopped
       THEN AfterLoop(r, CycleGuard)
       ELSE /\ totalms' = totalms + Ms(rs[r].test)
            /\ Emit(r, <<"iteration", rs[r].test.id, rs[r].j, Ms(rs[r].test)>>)
            /\ rs' = [rs EXCEPT ![r].pc = "iteration",
                                ![r].reported = totalms + Ms(rs[r].test)]
            /\ UNCHANGED <<abort, running>>
  /\ UNCHANGED <<tests, config, flags>>

\* iteration returned, were postMeasure awaited without the check of line 93
AfterIterationNoCheck(r) ==
  /\ rs[r].pc = "iteration"
  /\ IF HasPostMeasure(rs[r].test)
       THEN Emit(r, <<"postMeasure", rs[r].test.id, rs[r].j>>)
       ELSE UNCHANGED obs
  /\ Goto(r, "postMeasure")
  /\ UNCHANGED <<tests, shared, config, flags>>

\* iteration returned (lines 93-94): `await postMeasure?.(i)`
AfterIteration(r) ==
  /\ rs[r].pc = "iteration"
  /\ IF Stopped
       THEN AfterLoop(r, CycleGuard)
       ELSE /\ IF HasPostMeasure(rs[r].test)
                 THEN Emit(r, <<"postMeasure", rs[r].test.id, rs[r].j>>)
                 ELSE UNCHANGED obs
            /\ Goto(r, "postMeasure")
            /\ UNCHANGED shared
  /\ UNCHANGED <<tests, config, flags>>

\* postMeasure returned: next i of the measured loop
AfterPostMeasure(r) ==
  /\ rs[r].pc = "postMeasure"
  /\ MeasureLoop(r, rs[r].j + 1)
  /\ UNCHANGED <<tests, config, flags>>

\* cycle returned (line 98): totalms = 0; runCase returns; test.after
AfterCycle(r) ==
  /\ rs[r].pc = "cycle"
  /\ totalms' = 0
  /\ CallAfter(r)
  /\ UNCHANGED <<tests, abort, running, config, flags>>

\* test.after returned, were the next case entered without the second delay
AfterAfterNoDelay(r) ==
  /\ rs[r].pc = "after"
  /\ CaseLoop(r, rs[r].i + 1)
  /\ UNCHANGED <<tests, shared, config, flags>>

\* test.after returned: the second sleep(delay)
AfterAfter(r) ==
  /\ rs[r].pc = "after"
  /\ Goto(r, "sleep2")
  /\ UNCHANGED <<tests, shared, config, obs, flags>>

\* the second sleep(delay) returned, were a stopped run to return from run()
\* at once, without afterAll
AfterSleep2ReturnWhenStopped(r) ==
  /\ rs[r].pc = "sleep2"
  /\ IF Stopped
       THEN /\ reset
            /\ obs' = [obs EXCEPT ![r] = NoObs]
            /\ rs' = [rs EXCEPT ![r] = [IdleRun EXCEPT !.pc = "done"]]
            /\ flags' = [flags EXCEPT ![r] = NoFlags]
            /\ UNCHANGED <<tests, config>>
       ELSE /\ CaseLoop(r, rs[r].i + 1)
            /\ UNCHANGED <<tests, shared, config, flags>>

\* the second sleep(delay) returned: i++ and the next case, or afterAll
AfterSleep2(r) ==
  /\ rs[r].pc = "sleep2"
  /\ CaseLoop(r, rs[r].i + 1)
  /\ UNCHANGED <<tests, shared, config, flags>>

\* afterAll returned (line 119): reset(); the promise of run() resolves
AfterAfterAll(r) ==
  /\ rs[r].pc = "afterAll"
  /\ reset
  /\ obs' = [obs EXCEPT ![r] = NoObs]
  /\ rs' = [rs EXCEPT ![r] = [IdleRun EXCEPT !.pc = "done"]]
  /\ flags' = [flags EXCEPT ![r] = NoFlags]
  /\ UNCHANGED <<tests, config>>

Step(r) ==
  \/ AfterBeforeAll(r)
  \/ AfterBefore(r)
  \/ AfterPreMeasure(r)
  \/ AfterPreMeasureIteration(r)
  \/ AfterSleep1(r)
  \/ AfterMeasure(r)
  \/ AfterIteration(r)
  \/ AfterPostMeasure(r)
  \/ AfterCycle(r)
  \/ AfterAfter(r)
  \/ AfterSleep2(r)
  \/ AfterAfterAll(r)

Next ==
  \/ \E kind \in Kinds : Add(kind)
  \/ Cancel
  \/ Clear
  \/ RunReentrant
  \/ \E r \in Runs : Run(r)
  \/ \E r \in Runs : Step(r)

Spec == Init /\ [][Next]_vars

\* an awaited hook or callback rejects, were run() to catch the rejection,
\* give up the case and go on with the next one
ThrowSwallowed(r) ==
  /\ rs[r].pc \in Hooks
  /\ rs[r].pc = "postMeasure" => HasPostMeasure(rs[r].test)
  /\ rs' = [rs EXCEPT ![r].pc = "sleep2", ![r].j = 0, ![r].reported = 0]
  /\ flags' = [flags EXCEPT ![r].failure = "threw"]
  /\ UNCHANGED <<tests, shared, config, obs>>

\* an awaited hook or callback of run() invocation r rejects: the rejection
\* passes through runPreMeasure, runCase and run, none of which catches it, so
\* the promise of run() rejects and nothing after the await is executed
\* (in particular not the reset() of line 119)
Throw(r) ==
  /\ rs[r].pc \in Hooks
  /\ rs[r].pc = "postMeasure" => HasPostMeasure(rs[r].test)
  /\ rs' = [rs EXCEPT ![r] = [IdleRun EXCEPT !.pc = "failed", !.i = rs[r].i]]
  /\ obs' = [obs EXCEPT ![r] = NoObs]
  /\ flags' = [flags EXCEPT ![r] = [NoFlags EXCEPT !.failure = "threw"]]
  /\ UNCHANGED <<tests, shared, config>>

\* the engine with hooks that may reject
FailNext ==
  \/ Next
  \/ \E r \in Runs : Throw(r)

\* an instance constructed with iterations = 1 and preMeasureIterations = 1
FailInit == Start(TRUE) /\ iterations = 1 /\ preMeasureIterations = 1

FailSpec == FailInit /\ [][FailNext]_vars

\* every awaited hook, callback and delay eventually returns
\* (a continuation is enabled from the return of its await until it runs)
FairSpec == Start(FALSE) /\ [][Next]_vars /\ \A r \in Runs : WF_vars(Step(r))

\* ------------------------------------------------- a second instance
\* Benchmark(...) called a second time: its own tests, totalms, abort, running.
\* Its run() invocations are followed only through what they write to these.
first == <<tests, nextId, totalms, abort, running, rs, obs, flags>>

\* add() of the second instance
PeerAdd ==
  /\ peer.tests < MaxPeerAdds
  /\ peer' = [peer EXCEPT !.tests = @ + 1]
  /\ UNCHANGED <<first, iterations, preMeasureIterations, recording>>

\* run() of the second instance: `if (running) return; running = true`
PeerRun ==
  /\ ~peer.running
  /\ peer' = [peer EXCEPT !.running = TRUE]
  /\ UNCHANGED <<first, iterations, preMeasureIterations, recording>>

\* cancel() of the second instance, were abort a variable of the module
\* shared by all instances
PeerCancelGlobal ==
  /\ peer.running
  /\ peer' = [peer EXCEPT !.abort = TRUE]
  /\ abort' = TRUE
  /\ UNCHANGED <<tests, nextId, totalms, running, rs, obs, flags,
                 iterations, preMeasureIterations, recording>>

\* cancel() of the second instance: `if (!running) return; abort = true`
PeerCancel ==
  /\ peer.running
  /\ peer' = [peer EXCEPT !.abort = TRUE]
  /\ UNCHANGED <<first, iterations, preMeasureIterations, recording>>

\* clear() of the second instance: tests.length = 0; reset()
PeerClear ==
  /\ peer' = NewPeer
  /\ UNCHANGED <<first, iterations, preMeasureIterations, recording>>

\* a run of the second instance gets measure(i) back: totalms += ms (ms = 1)
PeerMeasure ==
  /\ peer.running /\ ~peer.abort /\ peer.tests > 0
  /\ peer.totalms < MaxPeerMeasures
  /\ peer' = [peer EXCEPT !.totalms = @ + 1]
  /\ UNCHANGED <<first, iterations, preMeasureIterations, recording>>

\* a run of the second instance calls reset(): at a checkpoint that finds it
\* stopped, or when its afterAll has returned
PeerReset ==
  /\ peer.running \/ peer.totalms > 0
  /\ peer' = [peer EXCEPT !.totalms = 0, !.abort = FALSE, !.running = FALSE]
  /\ UNCHANGED <<first, iterations, preMeasureIterations, recording>>

PeerNext == PeerAdd \/ PeerRun \/ PeerCancel \/ PeerClear \/ PeerMeasure \/ PeerReset

TwoNext == Next \/ PeerNext

\* two instances constructed with { iterations: 1, preMeasureIterations: 1 }
TwoInit == Start(TRUE) /\ iterations = 1 /\ preMeasureIterations = 1

TwoSpec == TwoInit /\ [][TwoNext]_vars

\* ------------------------------------------------------------- the claims
\* the positions of the `before` invocations in the record c
Befores(c) == {p \in DOMAIN c : c[p][1] = "before"}

\* the number of the case (1 for the first the run entered) that the call at
\* position p of the record c belongs to
CaseOf(c, p) == Cardinality({q \in Befores(c) : q <= p})

\* how often the hook was invoked for the k-th case of the record c
CountIn(c, k, hook) ==
  Cardinality({p \in DOMAIN c : c[p][1] = hook /\ CaseOf(c, p) = k})

\* the sequence 0, 1, ..., n-1
UpTo(n) == [p \in 1..n |-> p - 1]

\* the indices passed to the iteration callback
IterIndices(o) == [p \in DOMAIN o.iters |-> o.iters[p][1]]

RECURSIVE SumMs(_)
\* the sum of the ms values passed to the iteration callback
SumMs(its) == IF its = <<>> THEN 0 ELSE its[1][2] + SumMs(Tail(its))

\* C1: at most one run() invocation is between its beforeAll call and its
\* final reset at any time, so no two case hooks are in flight at once.
C1_AtMostOneActiveRun == Cardinality({r \in Runs : Active(r)}) <= 1

\* C2: when cancel() came while case k was in its before, pre-measure or
\* measured phase, then once every case hook of the run has been invoked
\* (afterAll is awaited), cycle has fired exactly once for every case the run
\* executed before k, after has fired exactly once for k, and cycle never for k.
C2_CancelledCaseEndsWithoutCycle ==
  \A r \in Runs :
    (rs[r].pc = "afterAll" /\ flags[r].hit.k # 0 /\ flags[r].hit.early) =>
      LET c == obs[r].clog
          k == flags[r].hit.k
      IN /\ CountIn(c, k, "cycle") = 0
         /\ CountIn(c, k, "after") = 1
         /\ \A m \in 1..(k - 1) : CountIn(c, m, "cycle") = 1

\* C3: once cancel() has come during the k-th case of a run, the run invokes
\* the before hook (and so measure) of no later case: it never enters a
\* (k+1)-th case.
C3_LaterCasesSkipped ==
  \A r \in Runs :
    (Active(r) /\ flags[r].hit.k # 0) =>
      Cardinality(Befores(obs[r].clog)) <= flags[r].hit.k

\* C4: after a cancel() that came while measure(i) of a run was in flight, and
\* as long as neither run() nor clear() is called, the run invokes no iteration
\* callback, adds nothing to totalms and starts no measure or preMeasure call.
C4_CancelDuringMeasure ==
  [][\A r \in Runs :
       (flags[r].armed /\ flags'[r].armed) =>
          /\ Len(obs'[r].iters) <= Len(obs[r].iters)
          /\ Len(obs'[r].meas) <= Len(obs[r].meas)
          /\ Len(obs'[r].pre) <= Len(obs[r].pre)
          /\ totalms' <= totalms]_vars

\* C4 witness: measure(i) returned after the cancel() and the after hook is awaited
C4_Witness ==
  \E r \in Runs : flags[r].armed /\ flags[r].cancelled /\ rs[r].pc = "after"

\* C5: with every awaited call returning, every run that is active when
\* cancel() has set abort eventually settles.
C5_CancelledRunSettles ==
  \A r \in Runs : (Active(r) /\ abort) ~> (rs[r].pc = "done")

\* C5 witness: abort is set while a run is in a case with another case ahead
C5_Witness ==
  \E r \in Runs : abort /\ rs[r].pc \in CasePhases /\ rs[r].i + 1 < Len(tests)

\* C6: no run() invocation is in the engine, uncancelled, while a run that
\* cancel() reached is still active: a run() made after the cancel() starts
\* only when the aborted run has settled.
C6_RunWaitsForWindDown ==
  \A a, b \in Runs :
    (a # b /\ Active(a) /\ flags[a].cancelled) => ~(Active(b) /\ ~flags[b].cancelled)

\* C7: in a run that is neither cancelled nor cleared, a case that has reached
\* its after hook was taken through before, preMeasure(0..P-1) each with its
\* preMeasureIteration, measure(0..N-1) each with its iteration callback, and
\* cycle, in that order.
C7_PhasesInOrder ==
  \A r \in Runs :
    (rs[r].pc = "after" /\ ~flags[r].cancelled /\ ~flags[r].cleared) =>
      LET o == obs[r]
          n == Len(o.clog)
          k == rs[r].test.id
          P == IF HasPreMeasure(rs[r].test) THEN preMeasureIterations ELSE 0
      IN /\ n >= 3
         /\ SubSeq(o.clog, n - 2, n) = <<<<"before", k, 0>>, <<"cycle", k, 0>>, <<"after", k, 0>>>>
         /\ o.pre = UpTo(P)
         /\ o.preIters = UpTo(P)
         /\ o.meas = UpTo(iterations)
         /\ IterIndices(o) = UpTo(iterations)

\* C8: a run invokes a before hook only when beforeAll has returned (first
\* case) or when the delay after the previous case's after hook has returned,
\* and the n-th case it enters is the n-th case of the registry and was
\* registered after every case the run entered before.
C8_CrossCaseOrder ==
  [][\A r \in Runs :
       LET c == obs[r].clog
           d == obs'[r].clog
           n == Cardinality(Befores(c))
       IN (Len(d) = Len(c) + 1 /\ d[Len(d)][1] = "before") =>
            /\ IF n = 0
                 THEN rs[r].pc = "beforeAll" /\ c = <<<<"beforeAll", 0, 0>>>>
                 ELSE rs[r].pc = "sleep2" /\ c[Len(c)] = <<"after", rs[r].test.id, 0>>
            /\ n < Len(tests)
            /\ d[Len(d)][2] = tests[n + 1].id
            /\ \A p \in Befores(c) : c[p][2] < d[Len(d)][2]]_vars

\* C8 witness: a run has entered its second case
C8_Witness == \E r \in Runs : Cardinality(Befores(obs[r].clog)) >= 2

\* C9: the total reported to the cycle callback (mean * iterations) is the sum
\* of the ms values passed to the iteration callbacks of that case in that run.
C9_MeanIsOwnSum ==
  \A r \in Runs : rs[r].pc = "cycle" => rs[r].reported = SumMs(obs[r].iters)

C11_BulkNormalisedRunningMean ==
  \A r \in Runs :
    rs[r].pc = "iteration" =>
      LET its == obs[r].iters
      IN /\ its # <<>>
         /\ its[Len(its)][2] = Duration(rs[r].test) \div Bulk(rs[r].test)
         /\ rs[r].reported = SumMs(its)

C13_FailureStopsTheRun ==
  [][\A r \in Runs :
       /\ (flags'[r].failure = "threw" /\ flags[r].failure # "threw") =>
            /\ rs'[r].pc = "failed"
            /\ rs[r].pc \in {"measure", "preMeasure"} =>
                 obs[r].clog[Len(obs[r].clog)] = <<"before", rs[r].test.id, 0>>
       /\ rs[r].pc = "failed" =>
            \/ rs'[r] = rs[r] /\ obs'[r] = obs[r]
            \/ rs'[r].pc = "beforeAll" /\ obs'[r].clog = <<<<"beforeAll", 0, 0>>>>]_vars

\* C13 witness: a run has rejected in a case that is not the last of the registry
C13_Witness ==
  \E r \in Runs :
    rs[r].pc = "failed" /\ flags[r].failure = "threw" /\ rs[r].i + 1 < Len(tests)

\* C14: a clear() that follows the rejection of a run() leaves running = false,
\* abort = false, totalms = 0 and the registry empty, and in the run() started
\* after it (and neither cancelled nor cleared itself) every case that reaches
\* its after hook has had its N iterations and its cycle callback.
C14_ClearRecoversFromFailure ==
  [][/\ (\E r \in Runs : flags[r].failure = "threw" /\ flags'[r].failure = "cleared") =>
          tests' = <<>> /\ ~running' /\ ~abort' /\ totalms' = 0
     /\ \A r \in Runs :
          (/\ rs'[r].pc = "after" /\ flags'[r].failure = "cleared"
           /\ ~flags'[r].cancelled /\ ~flags'[r].cleared) =>
            LET c == obs'[r].clog
                k == rs'[r].test.id
            IN /\ Len(c) >= 3
               /\ SubSeq(c, Len(c) - 2, Len(c)) =
                    <<<<"before", k, 0>>, <<"cycle", k, 0>>, <<"after", k, 0>>>>
               /\ Len(obs'[r].iters) = iterations]_vars

\* C15: whenever running is true, some run() invocation has started and has
\* not settled.
C15_RunningOnlyWhileExecuting == running => \E r \in Runs : Active(r)

\* C16: when a run() invocation resolves, running = false, abort = false and
\* totalms = 0; and a run() that passes the guard starts with abort = false and
\* totalms = 0, so no cancel() of an earlier run is pending in it.
C16_ResolvedRunLeavesIdle ==
  [][\A r \in Runs :
       /\ (rs[r].pc = "afterAll" /\ rs'[r].pc = "done") =>
            ~running' /\ ~abort' /\ totalms' = 0
       /\ (rs[r].pc # "beforeAll" /\ rs'[r].pc = "beforeAll") =>
            running' /\ ~abort' /\ totalms' = 0]_vars

\* C16 witness: one run() has resolved and a later one has started
C16_Witness ==
  \E r, q \in Runs : rs[r].pc = "done" /\ rs[q].pc = "beforeAll" /\ running /\ ~abort

\* where a run continues from the await pc when it finds itself stopped
UnwindNext(pc) ==
  CASE pc = "beforeAll" -> "afterAll"
    [] pc = "before" -> "sleep1"
    [] pc = "preMeasure" -> "preMeasureIteration"
    [] pc = "preMeasureIteration" -> "sleep1"
    [] pc \in {"sleep1", "measure", "iteration", "postMeasure", "cycle"} -> "after"
    [] pc = "after" -> "sleep2"
    [] pc = "sleep2" -> "afterAll"
    [] pc = "afterAll" -> "done"

\* C17: a run that clear() reached, for as long as no run() passes the guard
\* and no case is added, starts no measure or preMeasure call, invokes no cycle
\* callback and enters no case; from any await inside a case it goes on to the
\* after hook of that case, then to afterAll, and it resolves with
\* running = false, abort = false, totalms = 0 and the registry empty.
C17_ClearedRunUnwinds ==
  [][\A r \in Runs :
       (/\ Active(r) /\ flags[r].cleared
        /\ ~running /\ ~running' /\ tests = <<>> /\ tests' = <<>>
        /\ rs'[r] # rs[r]) =>
         /\ rs'[r].pc = UnwindNext(rs[r].pc)
         /\ Len(obs'[r].meas) <= Len(obs[r].meas)
         /\ Len(obs'[r].pre) <= Len(obs[r].pre)
         /\ Len(obs'[r].clog) > Len(obs[r].clog) =>
              obs'[r].clog[Len(obs'[r].clog)][1] \in {"after", "afterAll"}
         /\ rs'[r].pc = "done" => ~abort' /\ totalms' = 0]_vars

\* C17 witness: a run cleared inside its measured loop awaits the after hook of
\* the case, its cycle callback not invoked
C17_Witness ==
  \E r \in Runs :
    /\ flags[r].cleared /\ ~flags[r].cancelled /\ ~running /\ tests = <<>>
    /\ rs[r].pc = "after" /\ obs[r].meas # <<>>
    /\ obs[r].clog[Len(obs[r].clog) - 1][1] = "before"

\* C18: while running is true no run() invocation starts: no step invokes
\* beforeAll, and the call changes nothing (RunReentrant leaves every variable
\* as it is).
C18_ReentrantRunIsNoOp ==
  [][running => \A r \in Runs : rs'[r].pc = "beforeAll" => rs[r].pc = "beforeAll"]_vars

\* C18 witness: running is true while a run is inside a case
C18_Witness == \E r \in Runs : running /\ rs[r].pc \in CasePhases /\ Len(obs[r].meas) > 0

\* C19: abort is never set while running is false, and in a run that no
\* cancel() has set abort for (and that was not cleared) every case that
\* reaches its after hook has had its N iterations and its cycle callback.
C19_CancelWhenNotRunning ==
  /\ ~running => ~abort
  /\ \A r \in Runs :
       (rs[r].pc = "after" /\ ~flags[r].cancelled /\ ~flags[r].cleared) =>
         /\ Len(obs[r].iters) = iterations
         /\ Len(obs[r].clog) >= 2
         /\ obs[r].clog[Len(obs[r].clog) - 1] = <<"cycle", rs[r].test.id, 0>>

\* C20: a run() whose beforeAll returns with the registry empty invokes
\* afterAll next, having invoked nothing but beforeAll, and then resolves.
C20_RunOnEmptyRegistry ==
  [][\A r \in Runs :
       /\ (rs[r].pc = "beforeAll" /\ tests = <<>> /\ rs'[r] # rs[r]) =>
            /\ rs'[r].pc = "afterAll"
            /\ obs'[r] = [NoObs EXCEPT !.clog = <<<<"beforeAll", 0, 0>>, <<"afterAll", 0, 0>>>>]
       /\ (rs[r].pc = "afterAll" /\ rs'[r] # rs[r]) =>
            rs'[r].pc = "done" /\ obs'[r] = NoObs]_vars

\* C20 witness: cases were registered and cleared, and a run() on the empty
\* registry awaits afterAll having invoked beforeAll only
C20_Witness ==
  \E r \in Runs :
    /\ nextId > 1 /\ tests = <<>> /\ rs[r].pc = "afterAll"
    /\ obs[r].clog = <<<<"beforeAll", 0, 0>>, <<"afterAll", 0, 0>>>>

\* how often the run-level hook was invoked in the record c
CountAll(c, hook) == Cardinality({p \in DOMAIN c : c[p][1] = hook})

\* C21: every run() invocation invokes beforeAll once and first, invokes
\* afterAll once and last, after its last case hook, and resolves only from
\* the await of afterAll -- cancelled or cleared or not.
C21_BeforeAllAndAfterAllOnce ==
  [][\A r \in Runs :
       LET c == obs'[r].clog
       IN rs'[r] # rs[r] =>
          /\ Active(r)' =>
               /\ c # <<>>
               /\ c[1] = <<"beforeAll", 0, 0>>
               /\ CountAll(c, "beforeAll") = 1
               /\ CountAll(c, "afterAll") = (IF rs'[r].pc = "afterAll" THEN 1 ELSE 0)
               /\ rs'[r].pc = "afterAll" => c[Len(c)] = <<"afterAll", 0, 0>>
          /\ (rs'[r].pc = "done" /\ rs[r].pc # "done") => rs[r].pc = "afterAll"]_vars

\* C21 witness: a run that cancel() reached inside a case awaits afterAll
C21_Witness ==
  \E r \in Runs :
    rs[r].pc = "afterAll" /\ flags[r].cancelled /\ Befores(obs[r].clog) # {}

\* C22: while the preMeasure iterations of a case are in progress, the before
\* hook of that case has not been invoked yet (it is invoked after them), and
\* it is invoked once per case.
C22_BeforeAfterPreMeasure ==
  \A r \in Runs :
    LET c == obs[r].clog
    IN /\ rs[r].pc \in {"preMeasure", "preMeasureIteration"} =>
            c[Len(c)] # <<"before", rs[r].test.id, 0>>
       /\ rs[r].pc \in CasePhases =>
            Cardinality({p \in Befores(c) : c[p][2] = rs[r].test.id}) = 1

\* C25: when preMeasure(i) returns to a run that cancel() has aborted in the
\* meantime, the run invokes no preMeasureIteration callback for i and starts
\* no further preMeasure call: it leaves the pre-measure loop at once.
C25_PreMeasureChecksAbortOnReturn ==
  [][\A r \in Runs :
       (rs[r].pc = "preMeasure" /\ abort /\ rs'[r] # rs[r]) =>
          /\ obs'[r].preIters = obs[r].preIters
          /\ obs'[r].pre = obs[r].pre
          /\ rs'[r].pc = "sleep1"]_vars

\* C26 as claimed: in a run that cancel() did not reach, a case with
\* postMeasure that has reached its after hook had postMeasure invoked once
\* for every measure call it made.
C26_PostMeasureOncePerIteration ==
  \A r \in Runs :
    (rs[r].pc = "after" /\ ~flags[r].cancelled /\ HasPostMeasure(rs[r].test)) =>
      /\ obs[r].post = IterIndices(obs[r])
      /\ Len(obs[r].post) = Len(obs[r].meas)

\* C26 amended: postMeasure is invoked only for a case that defines it, with
\* i = 0, 1, ... in order, at most once per measured iteration, after the
\* iteration callback for i has returned and before measure(i+1) is called;
\* exactly once for every iteration that is followed by measure(i+1) or by the
\* cycle callback; the return of postMeasure adds nothing to totalms; and a run
\* that finds itself stopped when measure(i) or the iteration callback for i
\* returns does not invoke postMeasure(i).
C26_PostMeasure ==
  [][\A r \in Runs :
       LET o == obs'[r]
           t == rs'[r].test
           at == rs'[r].pc
       IN rs'[r] # rs[r] =>
          /\ o.post = UpTo(Len(o.post))
          /\ Len(o.post) <= Len(o.iters)
          /\ (at \in CasePhases /\ ~HasPostMeasure(t)) => o.post = <<>>
          /\ (at \in CasePhases /\ HasPostMeasure(t)) =>
               /\ Len(o.iters) <= Len(o.post) + 1
               /\ at = "measure" => Len(o.post) = Len(o.meas) - 1
               /\ at = "iteration" => Len(o.post) = Len(o.iters) - 1
               /\ at = "postMeasure" => Len(o.post) = Len(o.iters)
               /\ at = "cycle" => Len(o.post) = iterations
          /\ (rs[r].pc = "postMeasure" /\ rs'[r] # rs[r]) => totalms' \in {totalms, 0}
          /\ (rs[r].pc \in {"measure", "iteration"} /\ Stopped /\ rs'[r] # rs[r]) =>
               obs'[r].post = obs[r].post /\ at \in {"cycle", "after"}]_vars

\* C26 witness: the cycle callback of a case with postMeasure is in flight
\* after two iterations, each followed by its postMeasure call
C26_Witness ==
  \E r \in Runs :
    /\ rs[r].pc = "cycle" /\ HasPostMeasure(rs[r].test)
    /\ iterations = 2 /\ obs[r].post = <<0, 1>>

\* C27: when a run that neither cancel() nor clear() reached has invoked every
\* case hook (afterAll is awaited), cycle has fired exactly once for every case
\* of the registry that it entered.
C27_UnwindingRunDoesNotStopLaterRun ==
  \A r \in Runs :
    (rs[r].pc = "afterAll" /\ ~flags[r].cancelled /\ ~flags[r].cleared) =>
      LET c == obs[r].clog
      IN \A k \in 1..Cardinality(Befores(c)) : CountIn(c, k, "cycle") = 1

\* C28: in every run the after hook of a case is invoked once for each
\* invocation of its before hook: whenever a run is not inside a case (it sleeps
\* after a case, awaits afterAll or settles), every case it entered has had
\* exactly one before and one after, and inside a case only the after of that
\* case is still missing -- cancelled or cleared or not.
C28_HookPairing ==
  [][\A r \in Runs :
       LET c == obs'[r].clog
           d == obs[r].clog
           at == rs'[r].pc
           open == IF at \in CasePhases \ {"after", "sleep2"} THEN 1 ELSE 0
       IN rs'[r] # rs[r] =>
          /\ Active(r)' =>
               /\ CountAll(c, "after") = CountAll(c, "before") - open
               /\ \A p \in DOMAIN c :
                    c[p][1] = "after" =>
                      /\ p > 1
                      /\ \/ c[p - 1] = <<"before", c[p][2], 0>>
                         \/ /\ p > 2
                            /\ c[p - 1] = <<"cycle", c[p][2], 0>>
                            /\ c[p - 2] = <<"before", c[p][2], 0>>
          /\ (rs'[r].pc = "done" /\ rs[r].pc # "done") =>
               CountAll(d, "after") = CountAll(d, "before")]_vars

\* C28 witness: a run that clear() reached inside a case awaits afterAll with
\* the after hook of that case invoked
C28_Witness ==
  \E r \in Runs :
    /\ rs[r].pc = "afterAll" /\ flags[r].cleared
    /\ CountAll(obs[r].clog, "after") >= 1

\* C29 as claimed: when a run has left the loop over the cases (afterAll is
\* awaited), it has executed every case that is in the registry, the ones
\* appended while it was in progress included.
C29_AddedCaseIsExecuted ==
  \A r \in Runs :
    rs[r].pc = "afterAll" =>
      \A p \in DOMAIN tests :
        \E q \in Befores(obs[r].clog) : obs[r].clog[q][2] = tests[p].id

\* C29 amended: every time a run comes to the head of the loop over the cases
\* (when beforeAll returns with i = 0, when the delay after a case returns with
\* i + 1) it reads the registry as it is then: it enters tests[i] when
\* i < tests.length, whenever that case was appended, and goes to afterAll
\* otherwise; the head is not evaluated again once afterAll is awaited.
C29_LoopReadsLiveRegistry ==
  [][\A r \in Runs :
       /\ (rs[r].pc \in {"beforeAll", "sleep2"} /\ rs'[r] # rs[r]) =>
            LET i == IF rs[r].pc = "beforeAll" THEN 0 ELSE rs[r].i + 1
            IN IF i < Len(tests)
                 THEN /\ rs'[r].pc = "before"
                      /\ rs'[r].i = i
                      /\ rs'[r].test = tests[i + 1]
                      /\ obs'[r].clog = Append(obs[r].clog, <<"before", tests[i + 1].id, 0>>)
                 ELSE rs'[r].pc = "afterAll"
       /\ (rs[r].pc = "afterAll" /\ rs'[r] # rs[r]) => rs'[r].pc = "done"]_vars

\* C29 witness: a run enters a case that was appended after a clear() that came
\* during the run
C29_Witness ==
  \E r \in Runs : rs[r].pc = "before" /\ flags[r].cleared /\ ~flags[r].cancelled

C24_InstancesDoNotInterfere ==
  [][/\ peer' # peer => first' = first
     /\ first' # first => peer' = peer]_vars

\* C24 witness: both instances are running, the first one in a measure call
\* and the second one cancelled
C24_Witness ==
  /\ peer.running /\ peer.abort /\ running /\ ~abort
  /\ \E r \in Runs : rs[r].pc = "measure"

\* ------------------------------------------------ the consumer of App.tsx
\* a fraction num / den as the pair <<num, den>>; den > 0
One == <<1, 1>>

Leq(a, b) == a[1] * b[2] <= b[1] * a[2]

\* what the throttled `progress` is called with by the iteration callbacks of
\* the case: progress: i / iterations
ProgressCalls(o) == [p \in DOMAIN o.iters |-> <<o.iters[p][1], iterations>>]

\* what the throttled `prefillProgress` is called with by the
\* preMeasureIteration callbacks of the case: prefill: i / prefill
PrefillCalls(o) == [p \in DOMAIN o.preIters |-> <<o.preIters[p], preMeasureIterations>>]

\* the cycle callback of the case has fired: { mean, prefill: 1, progress: 1 }
ProgressDone(o) ==
  \E p \in DOMAIN o.clog :
    o.clog[p][1] = "cycle" /\ \A q \in Befores(o.clog) : q < p

\* preMeasureIteration has fired with i === prefill - 1, or cycle: { prefill: 1 }
PrefillDone(o) ==
  \/ \E p \in DOMAIN o.preIters : o.preIters[p] = preMeasureIterations - 1
  \/ ProgressDone(o)

\* throttle(..., { leading: true, trailing: false }) passes on any subset K of
\* the calls and drops the others; the terminal value 1 is set unthrottled.
\* The values recorded never decrease, whichever calls are kept.
NonDecreasing(calls, done) ==
  \A K \in SUBSET DOMAIN calls :
    /\ \A p, q \in K : p < q => Leq(calls[p], calls[q])
    /\ done => \A p \in K : Leq(calls[p], One)

\* C23: for every case of a run, whichever progress calls the throttle drops,
\* the prefill and the progress fractions recorded never decrease, and in a run
\* that is neither cancelled nor cleared a prefill phase or measurement phase
\* that has begun and ended has recorded the fraction 1.
C23_ProgressReachesOne ==
  \A r \in Runs :
    rs[r].pc \in CasePhases =>
      LET o == obs[r]
          finished == ~flags[r].cancelled /\ ~flags[r].cleared
      IN /\ NonDecreasing(ProgressCalls(o), ProgressDone(o))
         /\ NonDecreasing(PrefillCalls(o), PrefillDone(o))
         /\ (finished /\ o.pre # <<>>
               /\ rs[r].pc \notin {"before", "preMeasure", "preMeasureIteration"}) =>
              PrefillDone(o)
         /\ (finished /\ o.meas # <<>> /\ rs[r].pc \in {"after", "sleep2"}) =>
              ProgressDone(o)

=============================================================================
